---- MODULE Spec2Model ----
(***************************************************************************)
(* Model of BrowserController (browser-service/browser_controller.py):     *)
(* one control connection to a browser, send_command calls correlated by   *)
(* message id through pending_commands, the handle_messages read loop, and *)
(* the Redis command listener with process_command.                        *)
(*                                                                         *)
(* Spec drives the public coroutines of the class from asyncio tasks:      *)
(* direct callers of send_command (Tasks), the read loop, and the command  *)
(* listener.  asyncio is cooperative, so every action is the code between  *)
(* two awaits of one task.                                                 *)
(***************************************************************************)
EXTENDS Integers, Sequences, FiniteSets, TLC

(* ---------------- bounds of the model ---------------- *)
\* cap on self.message_id (a Python int, unbounded in the code)
MaxId == 4
\* frames the remote may have queued on the connection, not yet read
MaxInbound == 1
\* total Notifications the remote sends
MaxEvents == 2
\* total messages delivered on browser:commands
MaxCmds == 2
\* messages delivered and not yet taken by the listener
MaxQueue == 1
\* failed connect attempts of run that are counted (the code counts none and
\* retries without a cap; the count stops here, the retries do not)
MaxAttempts == 2

\* asyncio tasks that call send_command directly
Tasks == {"t1", "t2"}
\* the task running listen_for_commands / process_command
\* the one task of Tasks that runs next to the read loop in SpecEvents
EventsTask == "t1"
Dispatcher == "disp"
\* the task running run
Main == "main"
Callers == Tasks \cup {Dispatcher, Main}

None == "None"

(* ---------------- frames on the control connection ---------------- *)
Response(i, p) == [kind |-> "response", id |-> i, method |-> "", payload |-> p]
Notification(m) == [kind |-> "event", id |-> 0, method |-> m, payload |-> "params"]
NoFrame == [kind |-> "none", id |-> 0, method |-> "", payload |-> ""]

\* every event name is republished
AnyEvent == {"Page.loadEventFired", "Page.frameNavigated", "Network.requestWillBeSent",
             "Network.responseReceived"}

\* the list literal of handle_event
AllowedEvents == {"Page.loadEventFired", "Page.frameNavigated", "Network.requestWillBeSent"}
\* event names the remote sends in the model: one of the allow-list and one other
EventNames == {"Page.loadEventFired", "Network.responseReceived"}
Payloads == {"result", "error"}
\* ids the remote may put in a Response: issued, not yet issued or never issued
ResponseIds == 1 .. MaxId

VARIABLES
    ws_connection,      \* self.ws_connection: None or the address connected to
    conn_open,          \* the remote end of the connection is open
    message_id,         \* self.message_id
    pending_commands,   \* self.pending_commands: message id -> future (index in futures)
    futures,            \* every future created by send_command, in creation order
    call,               \* per caller: position in send_command and its locals
    inbound,            \* frames sent by the remote, not yet returned by recv()
    events_sent,       \* number of Notifications the remote has sent
    reader,             \* handle_messages: "not_started", "running", "stopped"
    dropped,            \* handle_messages: the frame last read was a Response with no entry
    caught,             \* handle_messages: the exception the frame last read raised, "" if none
    listener,           \* listen_for_commands / process_command: position and locals
    cmd_queue,          \* messages delivered on browser:commands, not yet taken
    delivered,          \* number of messages delivered on browser:commands
    published,          \* every redis publish, in order
    runner              \* run: position and the outcome of its last connect attempt

coreVars == <<ws_connection, conn_open, message_id, pending_commands, futures, call,
              inbound, events_sent, reader, dropped, caught>>
busVars == <<listener, cmd_queue, delivered, published>>
vars == <<coreVars, busVars, runner>>

\* a request of send_command: the method and the params that tell two calls apart
Req(method, arg) == [method |-> method, arg |-> arg]

IdleCall == [pc |-> "idle", id |-> 0, fut |-> 0, method |-> "", arg |-> "", out |-> "",
             ret |-> NoFrame]

(* ---------------- dict and future primitives ---------------- *)
\* d[k] = v
DictSet(d, k, v) == [x \in (DOMAIN d) \cup {k} |-> IF x = k THEN v ELSE d[x]]
\* del d[k] on a present key
DictDel(d, k) == [x \in (DOMAIN d) \ {k} |-> d[x]]

\* n: the number of the delivered command the call belongs to, 0 for a call
\* that no command asked for
NewFuture(i, t, n) == [id |-> i, owner |-> t, n |-> n, state |-> "pending",
                       result |-> NoFrame, assigned |-> 0, removals |-> 0]

\* the counter is read but the increment is lost
StaleMessageId(mid) == mid

\* line 61: self.message_id += 1
NextMessageId(mid) == mid + 1

\* line 71: self.pending_commands[message_id] = future
Register(p, i, f) == DictSet(p, i, f)

\* the timeout path forgets to remove the entry
TimeoutKeep(p, i) == p

\* line 79: del self.pending_commands[message_id]; the entry is there or KeyError
TimeoutDel(p, i) == IF i \in DOMAIN p THEN DictDel(p, i) ELSE p

\* the oldest entry of the table
Oldest(p) == CHOOSE k \in DOMAIN p : \A j \in DOMAIN p : k <= j

\* lines 93-94: set_result on the future of entry k, then del of the entry
Resolve(p, fs, k, frame) ==
    IF fs[p[k]].state = "pending"
    THEN [pending |-> DictDel(p, k),
          futures |-> [fs EXCEPT ![p[k]].state = "done", ![p[k]].result = frame,
                                 ![p[k]].assigned = @ + 1, ![p[k]].removals = @ + 1],
          raised |-> ""]
    ELSE [pending |-> p, futures |-> fs, raised |-> "InvalidStateError"]

\* Responses are matched to calls in send order, whatever their id
OnResponseFifo(p, fs, frame) ==
    IF DOMAIN p = {}
    THEN [pending |-> p, futures |-> fs, raised |-> ""]
    ELSE Resolve(p, fs, Oldest(p), frame)

\* a Response with an id that has no entry is given to the oldest call
OnResponseFallback(p, fs, frame) ==
    IF frame.id \in DOMAIN p THEN Resolve(p, fs, frame.id, frame)
    ELSE IF DOMAIN p = {} THEN [pending |-> p, futures |-> fs, raised |-> ""]
    ELSE Resolve(p, fs, Oldest(p), frame)

\* lines 90-94: a decoded frame with an "id" key, against the table p and the
\* futures fs.  set_result on a future that is not pending raises
\* InvalidStateError, which skips the del and is caught at line 103.
OnResponse(p, fs, frame) ==
    IF frame.id \notin DOMAIN p
    THEN [pending |-> p, futures |-> fs, raised |-> ""]
    ELSE Resolve(p, fs, frame.id, frame)

\* pubsub.listen() is the synchronous redis client: while the listener sits in
\* it the event loop thread is blocked and no other task or timer runs.
LoopFree == listener.pc # "listening"

(* ---------------- connect_to_browser ---------------- *)
Target(ty, url) == [type |-> ty, webSocketDebuggerUrl |-> url]
\* discovery results of the model; "" is a descriptor without an address
Discoveries == { <<>>,
                 <<Target("page", "ws://h/1")>>,
                 <<Target("other", "ws://h/2"), Target("page", "ws://h/1")>>,
                 <<Target("other", "ws://h/1"), Target("worker", "ws://h/2")>>,
                 <<Target("page", "ws://h/1"), Target("page", "ws://h/2")>>,
                 <<Target("other", "ws://h/2"), Target("page", "")>>,
                 <<Target("page", "")>> }

\* the first target is taken whatever its type
FirstTarget(targets) == targets[1]

\* line 41: next((t for t in targets if t.get("type") == "page"), targets[0])
PageTarget(targets) ==
    LET pages == {i \in 1 .. Len(targets) : targets[i].type = "page"} IN
    IF pages = {} THEN targets[1]
    ELSE targets[CHOOSE i \in pages : \A j \in pages : i <= j]

\* lines 30-54: the return value; raises: the GET or websockets.connect raised
\* and the except branch returned False
ConnectResult(targets, raises) ==
    ~(raises \/ targets = <<>> \/ PageTarget(targets).webSocketDebuggerUrl = "")

\* lines 28-54: the handle is assigned at line 48 only
Connect(targets, raises) ==
    IF ConnectResult(targets, raises)
    THEN /\ ws_connection' = PageTarget(targets).webSocketDebuggerUrl
         /\ conn_open' = TRUE
    ELSE UNCHANGED <<ws_connection, conn_open>>

\* a task calls connect_to_browser on a controller that has no connection
connect_to_browser(targets, raises) ==
    /\ ws_connection = None
    /\ LoopFree
    /\ Connect(targets, raises)
    /\ UNCHANGED <<message_id, pending_commands, futures, call, inbound, events_sent,
                   reader, dropped, caught, busVars, runner>>

(* ---------------- send_command ---------------- *)
\* lines 58-71, up to the await of ws_connection.send, with ws the value of
\* self.ws_connection when the call is made
SendCommandBeginOn(ws, t, req, n) ==
    IF ws = None
    THEN /\ call' = [call EXCEPT ![t] = [IdleCall EXCEPT !.pc = "raised",
                                          !.method = req.method, !.arg = req.arg,
                                          !.out = "Not connected to browser"]]
         /\ UNCHANGED <<message_id, pending_commands, futures>>
    ELSE LET mid == NextMessageId(message_id)
             f == Len(futures) + 1 IN
         /\ message_id < MaxId
         /\ message_id' = mid
         /\ futures' = Append(futures, NewFuture(mid, t, n))
         /\ pending_commands' = Register(pending_commands, mid, f)
         /\ call' = [call EXCEPT ![t] = [pc |-> "send", id |-> mid, fut |-> f,
                                         method |-> req.method, arg |-> req.arg,
                                         out |-> "", ret |-> NoFrame]]

SendCommandBegin(t, req, n) == SendCommandBeginOn(ws_connection, t, req, n)

\* a task calls send_command directly
task_call(t) ==
    /\ LoopFree
    /\ call[t].pc = "idle"
    /\ SendCommandBegin(t, Req("Page.enable", ""), 0)
    /\ UNCHANGED <<ws_connection, conn_open, inbound, events_sent, reader, dropped, caught,
                   busVars, runner>>

\* line 73: await self.ws_connection.send(...); raises ConnectionClosed when
\* closed.  Line 76: wait_for suspends the task on its future ("wait"), or finds
\* the result already set ("ready")
send_command_send(t) ==
    /\ LoopFree
    /\ call[t].pc = "send"
    /\ IF conn_open
       THEN call' = [call EXCEPT ![t].pc = IF futures[call[t].fut].state = "pending"
                                          THEN "wait" ELSE "ready"]
       ELSE call' = [call EXCEPT ![t].pc = "raised", ![t].out = "ConnectionClosed"]
    /\ UNCHANGED <<ws_connection, conn_open, message_id, pending_commands, futures,
                   inbound, events_sent, reader, dropped, caught, busVars, runner>>

\* lines 76-77: wait_for returns the result of the future
send_command_return(t) ==
    /\ LoopFree
    /\ call[t].pc \in {"wait", "ready"}
    /\ futures[call[t].fut].state = "done"
    /\ call' = [call EXCEPT ![t].pc = "returned", ![t].ret = futures[call[t].fut].result]
    /\ UNCHANGED <<ws_connection, conn_open, message_id, pending_commands, futures,
                   inbound, events_sent, reader, dropped, caught, busVars, runner>>

\* line 76: the 30 s timer of wait_for fires and cancels the future; the task
\* is resumed with TimeoutError on a later turn of the loop
wait_for_timeout(t) ==
    /\ LoopFree
    /\ call[t].pc = "wait"
    /\ futures[call[t].fut].state = "pending"
    /\ futures' = [futures EXCEPT ![call[t].fut].state = "cancelled"]
    /\ call' = [call EXCEPT ![t].pc = "timeout"]
    /\ UNCHANGED <<ws_connection, conn_open, message_id, pending_commands,
                   inbound, events_sent, reader, dropped, caught, busVars, runner>>

\* line 76, wait_for of Python 3.12 and later (async with timeout(): await fut):
\* the read loop has set the result of a future its task waits on, and the timer
\* fires in the same turn of the loop, before the task has run again; the timer
\* cancels the task, which is resumed with TimeoutError although its future has
\* a result.  wait_for of Python 3.11 and earlier returns the result here.
wait_for_timeout_late(t) ==
    /\ LoopFree
    /\ call[t].pc = "wait"
    /\ futures[call[t].fut].state = "done"
    /\ call' = [call EXCEPT ![t].pc = "timeout"]
    /\ UNCHANGED <<ws_connection, conn_open, message_id, pending_commands, futures,
                   inbound, events_sent, reader, dropped, caught, busVars, runner>>

\* lines 78-80: except asyncio.TimeoutError; del raises KeyError on a missing key
send_command_except(t) ==
    /\ LoopFree
    /\ call[t].pc = "timeout"
    /\ IF call[t].id \in DOMAIN pending_commands
       THEN /\ futures' = [futures EXCEPT ![pending_commands[call[t].id]].removals = @ + 1]
            /\ pending_commands' = TimeoutDel(pending_commands, call[t].id)
            /\ call' = [call EXCEPT ![t].pc = "raised", ![t].out = "Command " \o call[t].method \o " timed out"]
       ELSE /\ call' = [call EXCEPT ![t].pc = "raised", ![t].out = "KeyError"]
            /\ UNCHANGED <<futures, pending_commands>>
    /\ UNCHANGED <<ws_connection, conn_open, message_id, inbound, events_sent, 
                   reader, dropped, caught, busVars, runner>>

\* the calling task takes the outcome of its call
task_done(t) ==
    /\ LoopFree
    /\ call[t].pc \in {"returned", "raised"}
    /\ call' = [call EXCEPT ![t] = IdleCall]
    /\ UNCHANGED <<ws_connection, conn_open, message_id, pending_commands, futures,
                   inbound, events_sent, reader, dropped, caught, busVars, runner>>

(* ---------------- redis publications ---------------- *)
\* JSON values of a command's session_id: a string, a number (val holds its
\* digits), or absent (command.get gives None)
JsonStr(x) == [type |-> "str", val |-> x]
JsonInt(digits) == [type |-> "int", val |-> digits]
JsonNull == [type |-> "null", val |-> ""]

\* str() of a value inside an f-string: the string itself, the digits of the
\* number, "None" for None
Format(v) == IF v.type = "null" THEN "None" ELSE v.val

\* a channel name that drops the token
SharedChannel(session_id) == "browser:result:"

\* line 223: f"browser:result:{session_id}"
ResultChannel(session_id) == "browser:result:" \o Format(session_id)

\* lines 113-117: the publication of handle_event
EventMsg(frame) == [channel |-> "browser:events", n |-> 0, action |-> "",
                    type |-> frame.method,
                    session_id |-> JsonNull, success |-> FALSE, has_error |-> FALSE,
                    error |-> "", extra |-> frame.payload]

\* line 223: the publication of process_command; n and action are not part of
\* the payload: they record which delivered command the publication answers
ResultMsg(n, command, result) ==
    [channel |-> ResultChannel(result.session_id), n |-> n, action |-> command.action,
     type |-> "", session_id |-> result.session_id, success |-> result.success,
     has_error |-> result.has_error, error |-> result.error, extra |-> result.extra]

(* ---------------- handle_messages / handle_event ---------------- *)
\* lines 108-117: what handle_event appends to the publications
handle_event(frame) == IF frame.method \in AllowedEvents THEN <<EventMsg(frame)>> ELSE <<>>

\* any exception ends the read loop
AfterExceptionBreak(e) == "stopped"

\* lines 100-104: ConnectionClosed breaks the loop, any other exception is
\* printed and the loop takes the next frame
AfterException(e) == IF e = "ConnectionClosed" THEN "stopped" ELSE "running"

\* the task running handle_messages is started on a connected controller
handle_messages_start ==
    /\ LoopFree
    /\ reader = "not_started"
    /\ ws_connection # None
    /\ reader' = "running"
    /\ UNCHANGED <<ws_connection, conn_open, message_id, pending_commands, futures, call,
                   inbound, events_sent, dropped, caught, busVars, runner>>

\* lines 86-98: one frame returned by recv()
handle_messages_recv ==
    /\ LoopFree
    /\ reader = "running"
    /\ inbound # <<>>
    /\ LET frame == Head(inbound)
           r == OnResponse(pending_commands, futures, frame) IN
       /\ inbound' = Tail(inbound)
       /\ dropped' = (frame.kind = "response" /\ frame.id \notin DOMAIN pending_commands)
       /\ caught' = IF frame.kind = "response" THEN r.raised ELSE ""
       /\ IF frame.kind = "response"
          THEN /\ pending_commands' = r.pending
               /\ futures' = r.futures
               /\ UNCHANGED published
          ELSE /\ published' = published \o handle_event(frame)
               /\ UNCHANGED <<pending_commands, futures>>
    /\ UNCHANGED <<ws_connection, conn_open, message_id, call, events_sent, reader,
                   listener, cmd_queue, delivered, runner>>

\* lines 100-102: recv() raises ConnectionClosed once the queued frames are read
handle_messages_closed ==
    /\ LoopFree
    /\ reader = "running"
    /\ inbound = <<>>
    /\ ~conn_open
    /\ reader' = AfterException("ConnectionClosed")
    /\ UNCHANGED <<ws_connection, conn_open, message_id, pending_commands, futures, call,
                   inbound, events_sent, dropped, caught, busVars, runner>>

\* lines 86-98 and 103-104: recv() returns a Notification with a republished
\* name and the publish of line 113 raises (the redis server cannot be
\* reached); the exception leaves handle_event and is caught at line 103
handle_messages_publish_raises ==
    /\ LoopFree
    /\ reader = "running"
    /\ inbound # <<>>
    /\ Head(inbound).kind = "event"
    /\ Head(inbound).method \in AllowedEvents
    /\ inbound' = Tail(inbound)
    /\ dropped' = FALSE
    /\ caught' = "ConnectionError"
    /\ reader' = AfterException("ConnectionError")
    /\ UNCHANGED <<ws_connection, conn_open, message_id, pending_commands, futures, call,
                   events_sent, busVars, runner>>

(* ---------------- the remote end ---------------- *)
RemoteSend(frame) ==
    /\ conn_open
    /\ Len(inbound) < MaxInbound
    /\ inbound' = Append(inbound, frame)
    /\ UNCHANGED <<ws_connection, conn_open, message_id, pending_commands, futures, call,
                   reader, dropped, caught, busVars, runner>>

remote_respond(i, p) ==
    /\ RemoteSend(Response(i, p))
    /\ UNCHANGED events_sent

remote_notify(m) ==
    /\ events_sent < MaxEvents
    /\ RemoteSend(Notification(m))
    /\ events_sent' = events_sent + 1

remote_close ==
    /\ conn_open
    /\ conn_open' = FALSE
    /\ UNCHANGED <<ws_connection, message_id, pending_commands, futures, call,
                   inbound, events_sent, reader, dropped, caught, busVars, runner>>

(* ---------------- listen_for_commands / process_command ---------------- *)
\* messages on browser:commands: text that is no JSON, JSON that is no object,
\* or an object with action, session_id and the action's parameters
BadJson == [kind |-> "bad_json", action |-> "", session_id |-> JsonNull, text |-> <<>>]
NotObject == [kind |-> "not_object", action |-> "", session_id |-> JsonNull, text |-> <<>>]
Command(action, session_id, text) ==
    [kind |-> "object", action |-> action, session_id |-> session_id, text |-> text]

\* the chain ends in a branch that succeeds for any other action
WithDefaultAction == {"navigate", "screenshot", "click", "type", "evaluate", "get_url", "scroll"}

\* the action names of the if/elif chain, lines 192-214
KnownActions == {"navigate", "screenshot", "click", "type", "evaluate", "get_url"}

\* the messages delivered in the model
Tokens == {JsonStr("s1"), JsonStr("1"), JsonInt("1"), JsonNull}
Commands ==
    {Command("scroll", s, <<>>) : s \in Tokens}
    \cup {Command(a, JsonStr("s1"), <<>>) : a \in {"screenshot", "click"}}
    \cup {Command("type", JsonStr("s1"), <<"a", "b">>), BadJson, NotObject}

\* keyUp is sent before keyDown
TypePlanUpFirst(text) ==
    [i \in 1 .. 2 * Len(text) |->
        IF i % 2 = 1 THEN Req("Input.dispatchKeyEvent", "keyUp:" \o text[(i + 1) \div 2])
        ELSE Req("Input.dispatchKeyEvent", "keyDown:" \o text[i \div 2])]

\* lines 148-159: keyDown then keyUp for each character of the text
TypePlan(text) ==
    [i \in 1 .. 2 * Len(text) |->
        IF i % 2 = 1 THEN Req("Input.dispatchKeyEvent", "keyDown:" \o text[(i + 1) \div 2])
        ELSE Req("Input.dispatchKeyEvent", "keyUp:" \o text[i \div 2])]

\* lines 119-167 and 192-217: the send_command calls of each action, in order
Plan(command) ==
    CASE command.action = "navigate" -> <<Req("Page.navigate", "")>>
      [] command.action = "screenshot" -> <<Req("Page.captureScreenshot", "")>>
      [] command.action = "click" -> <<Req("Input.dispatchMouseEvent", "mousePressed"),
                                       Req("Input.dispatchMouseEvent", "mouseReleased")>>
      [] command.action = "type" -> TypePlan(command.text)
      [] command.action \in {"evaluate", "get_url"} -> <<Req("Runtime.evaluate", "")>>
      [] OTHER -> <<>>

\* lines 199, 212, 217: the key added to the result on success
ExtraKey(action) ==
    CASE action = "screenshot" -> "data"
      [] action = "evaluate" -> "value"
      [] action = "get_url" -> "url"
      [] OTHER -> ""

\* line 189: result = {"session_id": session_id, "success": False}
InitialResult(command) == [session_id |-> command.session_id, success |-> FALSE,
                           has_error |-> FALSE, error |-> "", extra |-> ""]

\* lines 194-217: result["success"] = True and the action's key
SuccessResult(command) == [InitialResult(command) EXCEPT !.success = TRUE,
                                                         !.extra = ExtraKey(command.action)]

\* the exception is swallowed and the initial result is published as it is
ErrorResultSilent(command, e) == InitialResult(command)

\* lines 219-220: result["error"] = str(e)
ErrorResult(command, e) == [InitialResult(command) EXCEPT !.has_error = TRUE, !.error = e]

\* the branch of an action that is none of the if/elif chain: nothing is
\* awaited and nothing is added to the initial result
UnknownResult(command) == InitialResult(command)

Listening == [pc |-> "listening", n |-> 0, cmd |-> BadJson, plan |-> <<>>]

\* line 223, then back to pubsub.listen()
PublishResult(n, command, result) ==
    /\ published' = Append(published, ResultMsg(n, command, result))
    /\ listener' = Listening
    /\ call' = [call EXCEPT ![Dispatcher] = IdleCall]

\* process_command of the n-th message from the point where the calls of plan
\* remain, up to its next await
Continue(n, command, plan) ==
    IF plan = <<>>
    THEN /\ PublishResult(n, command, SuccessResult(command))
         /\ UNCHANGED <<message_id, pending_commands, futures>>
    ELSE IF ws_connection = None
    THEN /\ PublishResult(n, command, ErrorResult(command, "Not connected to browser"))
         /\ UNCHANGED <<message_id, pending_commands, futures>>
    ELSE /\ SendCommandBegin(Dispatcher, Head(plan), n)
         /\ listener' = [pc |-> "executing", n |-> n, cmd |-> command, plan |-> plan]
         /\ UNCHANGED published

\* lines 171-172: the task running listen_for_commands subscribes
listen_start ==
    /\ LoopFree
    /\ listener.pc = "not_started"
    /\ listener' = Listening
    /\ UNCHANGED <<coreVars, cmd_queue, delivered, published, runner>>

\* a message is delivered to the subscription
deliver_command(c) ==
    /\ listener.pc # "not_started"
    /\ delivered < MaxCmds
    /\ Len(cmd_queue) < MaxQueue
    /\ delivered' = delivered + 1
    /\ cmd_queue' = Append(cmd_queue, [n |-> delivered + 1, cmd |-> c])
    /\ UNCHANGED <<coreVars, listener, published, runner>>

\* lines 176-182 and 184-223: pubsub.listen() yields a message; json.loads and
\* process_command up to its first await
listen_next ==
    /\ listener.pc = "listening"
    /\ cmd_queue # <<>>
    /\ cmd_queue' = Tail(cmd_queue)
    /\ LET m == Head(cmd_queue) IN
       IF m.cmd.kind \in {"bad_json", "not_object"}
       THEN \* json.loads raises, or command.get raises AttributeError at line 186:
            \* caught and printed at lines 181-182
            UNCHANGED <<listener, published, call, message_id, pending_commands, futures>>
       ELSE IF m.cmd.action \in KnownActions
            THEN Continue(m.n, m.cmd, Plan(m.cmd))
            ELSE /\ PublishResult(m.n, m.cmd, UnknownResult(m.cmd))
                 /\ UNCHANGED <<message_id, pending_commands, futures>>
    /\ UNCHANGED <<ws_connection, conn_open, inbound, events_sent, reader, dropped, caught, delivered,
                   runner>>

\* the awaited send_command returned: the next call of the action, or success
process_command_next ==
    /\ listener.pc = "executing"
    /\ call[Dispatcher].pc = "returned"
    /\ Continue(listener.n, listener.cmd, Tail(listener.plan))
    /\ UNCHANGED <<ws_connection, conn_open, inbound, events_sent, reader, dropped, caught,
                   cmd_queue, delivered, runner>>

\* lines 219-223: the awaited send_command raised
process_command_except ==
    /\ listener.pc = "executing"
    /\ call[Dispatcher].pc = "raised"
    /\ PublishResult(listener.n, listener.cmd,
                     ErrorResult(listener.cmd, call[Dispatcher].out))
    /\ UNCHANGED <<ws_connection, conn_open, message_id, pending_commands, futures,
                   inbound, events_sent, reader, dropped, caught, cmd_queue, delivered, runner>>

(* ---------------- run ---------------- *)
\* the locals of run: its position, the failed attempts counted so far, and
\* the discovery result and return value of its last connect_to_browser
NotStarted == [pc |-> "not_started", attempts |-> 0, targets |-> <<>>, raises |-> FALSE,
               ok |-> FALSE]

\* lines 238-240: the calls that enable the domains, in order
EnableCalls == <<"Page.enable", "Network.enable", "Runtime.enable">>

\* the loop gives up after a failed attempt
RunAfterConnectOnce(ok) == IF ok THEN "enable" ELSE "terminated"

\* lines 231-235: break on True, otherwise print, sleep and try again
RunAfterConnect(ok) == IF ok THEN "enable" ELSE "retry_sleep"

\* line 251 up to the sleep of line 228
run_start ==
    /\ LoopFree
    /\ runner.pc = "not_started"
    /\ runner' = [runner EXCEPT !.pc = "startup_sleep"]
    /\ UNCHANGED <<coreVars, busVars>>

\* lines 231-238: a sleep ends and connect_to_browser is awaited; on True the
\* loop is left and send_command("Page.enable") runs up to its first await
run_connect(targets, raises) ==
    /\ LoopFree
    /\ runner.pc \in {"startup_sleep", "retry_sleep"}
    /\ LET ok == ConnectResult(targets, raises) IN
       /\ Connect(targets, raises)
       /\ runner' = [pc |-> RunAfterConnect(ok),
                     attempts |-> IF ok \/ runner.attempts = MaxAttempts
                                  THEN runner.attempts ELSE runner.attempts + 1,
                     targets |-> targets, raises |-> raises, ok |-> ok]
       /\ IF RunAfterConnect(ok) = "enable"
          THEN SendCommandBeginOn(ws_connection', Main, Req(EnableCalls[1], ""), 0)
          ELSE UNCHANGED <<message_id, pending_commands, futures, call>>
    /\ UNCHANGED <<inbound, events_sent, reader, dropped, caught, busVars>>

\* lines 238-246: the awaited enable call returned; the next one is made, or
\* after the last one gather starts handle_messages, which runs up to recv(),
\* and listen_for_commands, which runs into pubsub.listen()
run_enable_next ==
    /\ LoopFree
    /\ runner.pc = "enable"
    /\ call[Main].pc = "returned"
    /\ LET k == CHOOSE i \in DOMAIN EnableCalls : EnableCalls[i] = call[Main].method IN
       IF k < Len(EnableCalls)
       THEN /\ SendCommandBegin(Main, Req(EnableCalls[k + 1], ""), 0)
            /\ UNCHANGED <<runner, reader, listener>>
       ELSE /\ runner' = [runner EXCEPT !.pc = "gather"]
            /\ reader' = "running"
            /\ listener' = Listening
            /\ call' = [call EXCEPT ![Main] = IdleCall]
            /\ UNCHANGED <<message_id, pending_commands, futures>>
    /\ UNCHANGED <<ws_connection, conn_open, inbound, events_sent, dropped, caught,
                   cmd_queue, delivered, published>>

\* lines 238-240 and 251: the awaited enable call raised; nothing in run catches
\* it, asyncio.run raises it and the process ends
run_raise ==
    /\ LoopFree
    /\ runner.pc = "enable"
    /\ call[Main].pc = "raised"
    /\ runner' = [runner EXCEPT !.pc = "terminated"]
    /\ UNCHANGED <<coreVars, busVars>>

(* ---------------- the specification ---------------- *)
Init ==
    /\ ws_connection = None
    /\ conn_open = FALSE
    /\ message_id = 0
    /\ pending_commands = <<>>
    /\ futures = <<>>
    /\ call = [t \in Callers |-> IdleCall]
    /\ inbound = <<>>
    /\ events_sent = 0
    /\ reader = "not_started"
    /\ dropped = FALSE
    /\ caught = ""
    /\ listener = [pc |-> "not_started", n |-> 0, cmd |-> BadJson, plan |-> <<>>]
    /\ cmd_queue = <<>>
    /\ delivered = 0
    /\ published = <<>>
    /\ runner = NotStarted

\* the connection, the read loop and the remote end
ConnectionStep ==
    \/ \E d \in Discoveries, raises \in BOOLEAN : connect_to_browser(d, raises)
    \/ handle_messages_start
    \/ handle_messages_recv
    \/ handle_messages_closed
    \/ remote_close

\* send_command called concurrently by the tasks
NextCalls ==
    \/ ConnectionStep
    \/ \E i \in ResponseIds : remote_respond(i, "result")
    \/ \E t \in Tasks : task_call(t)
    \/ \E t \in Tasks : task_done(t)
    \/ \E t \in Tasks : send_command_send(t)
    \/ \E t \in Tasks : send_command_return(t)
    \/ \E t \in Tasks : wait_for_timeout(t)
    \/ \E t \in Tasks : wait_for_timeout_late(t)
    \/ \E t \in Tasks : send_command_except(t)

SpecCalls == Init /\ [][NextCalls]_vars

\* the read loop with Responses and Notifications from the remote end, and one
\* task calling send_command
NextEvents ==
    \/ ConnectionStep
    \/ \E i \in ResponseIds : remote_respond(i, "result")
    \/ \E m \in EventNames : remote_notify(m)
    \/ task_call(EventsTask)
    \/ task_done(EventsTask)
    \/ send_command_send(EventsTask)
    \/ send_command_return(EventsTask)
    \/ wait_for_timeout(EventsTask)
    \/ wait_for_timeout_late(EventsTask)
    \/ send_command_except(EventsTask)

SpecEvents == Init /\ [][NextEvents]_vars

\* the same, with a bus whose publish may raise
NextPublish ==
    \/ NextEvents
    \/ handle_messages_publish_raises

SpecPublish == Init /\ [][NextPublish]_vars

\* the command listener and the calls of process_command
NextBus ==
    \/ ConnectionStep
    \/ \E i \in ResponseIds : remote_respond(i, "result")
    \/ send_command_send(Dispatcher)
    \/ send_command_return(Dispatcher)
    \/ wait_for_timeout(Dispatcher)
    \/ wait_for_timeout_late(Dispatcher)
    \/ send_command_except(Dispatcher)
    \/ listen_start
    \/ \E c \in Commands : deliver_command(c)
    \/ listen_next
    \/ process_command_next
    \/ process_command_except

SpecBus == Init /\ [][NextBus]_vars

\* the same, with every task that can run scheduled, every timer firing, and a
\* remote end and a bus that keep acting while they can
LiveBus == SpecBus /\ WF_vars(NextBus)

\* the same, with a remote end that answers a request with a result or with
\* an error payload
NextBusPayloads ==
    \/ NextBus
    \/ \E i \in ResponseIds : remote_respond(i, "error")

SpecBusPayloads == Init /\ [][NextBusPayloads]_vars

\* every task together, with Notifications and error payloads from the remote
Next ==
    \/ NextCalls
    \/ NextBus
    \/ \E i \in ResponseIds : remote_respond(i, "error")
    \/ \E m \in EventNames : remote_notify(m)
    \/ run_start
    \/ \E d \in Discoveries, raises \in BOOLEAN : run_connect(d, raises)
    \/ send_command_send(Main)
    \/ send_command_return(Main)
    \/ wait_for_timeout(Main)
    \/ wait_for_timeout_late(Main)
    \/ send_command_except(Main)
    \/ run_enable_next
    \/ run_raise

Spec == Init /\ [][Next]_vars

\* run from the start of the process: until the first enable call returns no
\* task but run exists, so the read loop and the listener take no step
NextRun ==
    \/ run_start
    \/ \E d \in Discoveries, raises \in BOOLEAN : run_connect(d, raises)
    \/ \E i \in ResponseIds, p \in Payloads : remote_respond(i, p)
    \/ \E m \in EventNames : remote_notify(m)
    \/ remote_close
    \/ send_command_send(Main)
    \/ wait_for_timeout(Main)
    \/ send_command_except(Main)
    \/ run_raise

SpecRun == Init /\ [][NextRun]_vars

(* ---------------- properties of send_command and handle_messages ---------------- *)
TimedOut(t) == call[t].pc = "raised" /\ call[t].out = "Command " \o call[t].method \o " timed out"

\* C1: under every interleaving of concurrent send_command calls and inbound
\* Responses, a call that returns, returns the Response whose id is the id the
\* call allocated, and a future is only ever resolved with the Response of its
\* own id.
C1_CorrelationById ==
    /\ \A t \in Callers :
          call[t].pc = "returned" =>
              (call[t].ret.kind = "response" /\ call[t].ret.id = call[t].id)
    /\ \A f \in DOMAIN futures :
          futures[f].state = "done" => futures[f].result.id = futures[f].id

\* a later call has returned while an earlier one is still waiting: the
\* Responses came in another order than the requests
C1_Witness ==
    \E t, u \in Callers :
        /\ call[t].pc = "returned"
        /\ call[u].pc = "wait"
        /\ call[u].id < call[t].id
        /\ call[u].id \in DOMAIN pending_commands

\* C2: when the read loop observes the connection closed, every entry of
\* pending_commands is resolved and the table is empty afterwards.
C2_SweepOnConnectionLoss ==
    [][(reader = "running" /\ reader' = "stopped") =>
          /\ DOMAIN pending_commands' = {}
          /\ \A k \in DOMAIN pending_commands :
                futures'[pending_commands[k]].state # "pending"]_vars

\* C3: a call that was sent and whose future is still unresolved leaves its
\* wait only by the timeout; the timeout handler raises the timeout error,
\* removes the call's own id from pending_commands and leaves every other entry
\* and every other future as it was.
C3_TimeoutRemovesOwnEntry ==
    [][\A t \in Callers :
          /\ (call[t].pc = "wait" /\ futures[call[t].fut].state = "pending"
                /\ call'[t].pc # "wait")
              => (call'[t].pc = "timeout" /\ futures'[call[t].fut].state = "cancelled")
          /\ (call[t].pc = "timeout" /\ futures[call[t].fut].state = "cancelled"
                /\ call'[t].pc # "timeout")
              => /\ TimedOut(t)'
                 /\ call[t].id \notin DOMAIN pending_commands'
                 /\ DOMAIN pending_commands' = DOMAIN pending_commands \ {call[t].id}
                 /\ \A k \in DOMAIN pending_commands' :
                       pending_commands'[k] = pending_commands[k]
                 /\ \A f \in DOMAIN futures \ {call[t].fut} : futures'[f] = futures[f]]_vars

\* one call has timed out and its id is gone while another call is still pending
C3_Witness ==
    \E t, u \in Callers :
        /\ TimedOut(t)
        /\ call[t].id \notin DOMAIN pending_commands
        /\ call[u].pc = "wait"
        /\ call[u].id \in DOMAIN pending_commands

\* C4: a request is removed from pending_commands at most once, its result slot
\* is assigned at most once, and no step raises because the entry of the
\* request is already gone.
C4_AtMostOneOutcome ==
    /\ \A f \in DOMAIN futures : futures[f].removals <= 1 /\ futures[f].assigned <= 1
    /\ \A t \in Callers : call[t].out # "KeyError"

\* C5: when the read loop takes a Response whose id is no key of
\* pending_commands, the table, the counter, every future, every call and the
\* publications are unchanged and the read loop keeps running.
C5_UnknownIdDiscarded ==
    [][(/\ reader = "running"
        /\ inbound # <<>>
        /\ inbound' = Tail(inbound)
        /\ Head(inbound).kind = "response"
        /\ Head(inbound).id \notin DOMAIN pending_commands)
       => (/\ pending_commands' = pending_commands
           /\ message_id' = message_id
           /\ futures' = futures
           /\ call' = call
           /\ published' = published
           /\ reader' = "running")]_vars

\* the read loop has just dropped a Response while a call has timed out before
\* and another call is still pending
C5_Witness ==
    /\ dropped
    /\ reader = "running"
    /\ DOMAIN pending_commands # {}
    /\ \E f \in DOMAIN futures :
          futures[f].state = "cancelled" /\ futures[f].id \notin DOMAIN pending_commands

\* C10: ids are allocated in strictly increasing order, so no two calls,
\* pending or completed, hold the same id, and every key of pending_commands
\* is between 1 and the counter.
C10_IdsNeverReused ==
    /\ \A i, j \in DOMAIN futures : i < j => futures[i].id < futures[j].id
    /\ \A f \in DOMAIN futures : 1 <= futures[f].id /\ futures[f].id <= message_id
    /\ \A k \in DOMAIN pending_commands : 1 <= k /\ k <= message_id
    /\ \A t, u \in Callers :
          (t # u /\ call[t].id # 0 /\ call[u].id # 0) => call[t].id # call[u].id

\* three ids allocated, two of them held by calls pending at the same time
C10_Witness ==
    /\ Len(futures) >= 3
    /\ \E t, u \in Callers :
          /\ t # u
          /\ call[t].id \in DOMAIN pending_commands
          /\ call[u].id \in DOMAIN pending_commands

(* ---------------- properties of listen_for_commands and process_command ---------------- *)
\* the publications on the reply channels, by index in published
Results == {i \in DOMAIN published : published[i].channel # "browser:events"}

\* the n-th delivered message has been taken and the listener is done with it
Finished(n) ==
    /\ n <= delivered
    /\ \A i \in DOMAIN cmd_queue : cmd_queue[i].n # n
    /\ ~(listener.pc = "executing" /\ listener.n = n)

\* the action names the dispatcher supports
SupportedActions == {"navigate", "screenshot", "click", "type", "evaluate", "get_url"}

\* the command the listener works on when it publishes
CurrentCommand == IF listener.pc = "executing" THEN listener.cmd ELSE Head(cmd_queue).cmd

\* C6: every message delivered on the command channel, malformed or not, has a
\* published Command Result once the listener is done with it.
C6_EveryCommandAnswered ==
    \A n \in 1 .. delivered : Finished(n) => \E i \in Results : published[i].n = n

\* a Command Result is published only by the step that ends a command, on
\* browser:result: followed by the text of the command's token, carrying the token
OwnChannel ==
    [][published' # published /\ published'[Len(published')].channel # "browser:events" =>
          LET m == published'[Len(published')] IN
          /\ published' = Append(published, m)
          /\ m.session_id = CurrentCommand.session_id
          /\ m.channel = "browser:result:" \o Format(CurrentCommand.session_id)]_vars

AtMostOneResult == \A i, j \in Results : published[i].n = published[j].n => i = j

\* C7 as stated: at most one Command Result per command, on the channel of its
\* token with the token as session_id, and two commands with different tokens
\* never answered on the same channel.
C7_OwnChannelNoCollision ==
    /\ OwnChannel
    /\ [](AtMostOneResult)
    /\ [](\A i, j \in Results :
            published[i].session_id # published[j].session_id
                => published[i].channel # published[j].channel)

\* C7 amended: at most one Command Result per command, on the channel of its
\* token with the token as session_id; two commands whose tokens are different
\* strings are never answered on the same channel, while a token that is no
\* string is answered on the channel of the string that spells it.
C7_OwnChannelStringTokens ==
    /\ OwnChannel
    /\ [](AtMostOneResult)
    /\ [](\A i, j \in Results :
            /\ (/\ published[i].session_id.type = "str"
                /\ published[j].session_id.type = "str"
                /\ published[i].session_id # published[j].session_id)
               => published[i].channel # published[j].channel
            /\ published[i].session_id = JsonInt("1")
               => published[i].channel = "browser:result:1"
            /\ published[i].session_id = JsonNull
               => published[i].channel = "browser:result:None")

\* two commands with different string tokens answered on different channels
C7_Witness ==
    \E i, j \in Results :
        /\ published[i].session_id.type = "str"
        /\ published[j].session_id.type = "str"
        /\ published[i].session_id # published[j].session_id
        /\ published[i].channel # published[j].channel

\* C8: taking a command whose action is none of the six publishes exactly one
\* Command Result, with success false, allocates no id and registers nothing,
\* and leaves the listener ready for the next command.
C8_UnknownActionFails ==
    /\ [](\A i, j \in Results :
            (published[i].action \notin SupportedActions /\ published[i].n = published[j].n)
                => (i = j /\ ~published[i].success))
    /\ [][(/\ listener.pc = "listening"
           /\ cmd_queue # <<>>
           /\ cmd_queue' = Tail(cmd_queue)
           /\ Head(cmd_queue).cmd.kind = "object"
           /\ Head(cmd_queue).cmd.action \notin SupportedActions)
          => (/\ Len(published') = Len(published) + 1
              /\ published'[Len(published')].n = Head(cmd_queue).n
              /\ published'[Len(published')].success = FALSE
              /\ message_id' = message_id
              /\ pending_commands' = pending_commands
              /\ futures' = futures
              /\ listener'.pc = "listening")]_vars

\* a command with an unknown action was answered with a failure and a later
\* command was answered after it
C8_Witness ==
    \E i, j \in Results :
        /\ published[i].action = "scroll"
        /\ ~published[i].success
        /\ i < j
        /\ published[i].n < published[j].n

\* C9: every Command Result with success false carries an error field, and the
\* one for an unknown action reports an unsupported action.
C9_FailureCarriesError ==
    \A i \in Results :
        ~published[i].success =>
            /\ published[i].has_error
            /\ published[i].action \notin SupportedActions
                  => published[i].error = "unsupported action"

(* ---------------- properties of the connection and of run ---------------- *)
\* the connection is live: the controller holds a handle and the remote end is open
SessionLive == ws_connection # None /\ conn_open

\* C11: a send_command call made while no connection is live, before the first
\* connect or after the connection was lost, fails with the not-connected
\* error, allocates no id, registers nothing and sends nothing.
C11_NotConnectedFails ==
    [][\A t \in Callers :
          (call[t].pc = "idle" /\ call'[t].pc # "idle" /\ ~SessionLive)
              => (/\ call'[t].pc = "raised"
                  /\ call'[t].out = "Not connected to browser"
                  /\ message_id' = message_id
                  /\ pending_commands' = pending_commands
                  /\ futures' = futures)]_vars

\* C12: after the read loop has observed the connection closed, a live
\* connection is established again and the read loop reads from it.
C12_ReconnectsAfterLoss ==
    [](reader = "stopped" => <>(SessionLive /\ reader = "running"))

\* run is in its startup loop, between two attempts to connect
InConnectLoop == runner.pc \in {"startup_sleep", "retry_sleep"}

\* C13: in the startup loop of run a failed attempt leads to the delay and
\* then to another attempt, however many attempts have failed; until an attempt
\* succeeds no call is made and neither the read loop nor the listener is
\* started; the loop is left only by a successful attempt, with a live
\* connection.
C13_RetryUntilConnected ==
    /\ [][InConnectLoop /\ ~InConnectLoop'
            => (runner'.pc = "enable" /\ runner'.ok /\ SessionLive')]_vars
    /\ [][InConnectLoop /\ InConnectLoop' /\ runner' # runner
            => (runner'.pc = "retry_sleep" /\ ~runner'.ok /\ ws_connection' = None)]_vars
    /\ [](runner.pc = "retry_sleep"
            => ENABLED (\E d \in Discoveries, raises \in BOOLEAN : run_connect(d, raises)))
    /\ [](runner.pc \in {"not_started", "startup_sleep", "retry_sleep"}
            => (/\ ws_connection = None
                /\ message_id = 0
                /\ futures = <<>>
                /\ DOMAIN pending_commands = {}
                /\ \A t \in Callers : call[t].pc = "idle"
                /\ reader = "not_started"
                /\ listener.pc = "not_started"))

\* an attempt succeeded after as many failed attempts as are counted
C13_Witness ==
    /\ runner.pc = "enable"
    /\ runner.attempts = MaxAttempts
    /\ runner.ok
    /\ SessionLive

\* the first target whose type is "page", or the first target if there is none
FirstPageElseFirst(targets) ==
    LET pages == SelectSeq(targets, LAMBDA t : t.type = "page") IN
    IF pages # <<>> THEN Head(pages) ELSE Head(targets)

\* the last connect attempt of run had to fail
MustFail ==
    \/ runner.raises
    \/ runner.targets = <<>>
    \/ FirstPageElseFirst(runner.targets).webSocketDebuggerUrl = ""

\* C14: after an attempt of connect_to_browser on a discovery result, the
\* handle is the address of the first target of type "page", or of the first
\* target if none is of that type; when the list is empty, the selected target
\* has no address or the attempt raised inside, the return value is False, no
\* handle is set and the caller goes on to its next attempt.
C14_FirstPageTarget ==
    runner.pc \notin {"not_started", "startup_sleep"} =>
        /\ runner.ok = ~MustFail
        /\ MustFail => (ws_connection = None /\ ~conn_open /\ runner.pc = "retry_sleep")
        /\ ~MustFail =>
              ws_connection = FirstPageElseFirst(runner.targets).webSocketDebuggerUrl

\* connected to a page target that is not the first target of the list
C14_Witness ==
    /\ runner.ok
    /\ Len(runner.targets) = 2
    /\ runner.targets[1].type # "page"
    /\ ws_connection = runner.targets[2].webSocketDebuggerUrl

(* ---------------- properties of handle_event ---------------- *)
\* the event names that are republished
Republished == {"Page.loadEventFired", "Page.frameNavigated", "Network.requestWillBeSent"}

\* C15: when the read loop takes a Notification, it is published once on
\* browser:events with its name as type and its params if its name is one of
\* the three republished names, and not at all otherwise; pending_commands is
\* unchanged either way, and nothing else is ever published on browser:events.
C15_AllowListedEventsOnly ==
    /\ [][(/\ reader = "running"
           /\ inbound # <<>>
           /\ inbound' = Tail(inbound)
           /\ Head(inbound).kind = "event")
          => (/\ pending_commands' = pending_commands
              /\ futures' = futures
              /\ IF Head(inbound).method \in Republished
                 THEN /\ Len(published') = Len(published) + 1
                      /\ SubSeq(published', 1, Len(published)) = published
                      /\ published'[Len(published')].channel = "browser:events"
                      /\ published'[Len(published')].type = Head(inbound).method
                      /\ published'[Len(published')].extra = Head(inbound).payload
                 ELSE published' = published)]_vars
    /\ [][(published' # published /\ published'[Len(published')].channel = "browser:events")
          => (/\ reader = "running"
              /\ inbound # <<>>
              /\ Head(inbound).kind = "event"
              /\ Head(inbound).method \in Republished)]_vars

\* two Notifications were read: one was republished, the other was dropped
C15_Witness ==
    /\ events_sent = 2
    /\ inbound = <<>>
    /\ Len(published) = 1
    /\ published[1].channel = "browser:events"
    /\ published[1].type = "Page.loadEventFired"

(* ---------------- properties of the process ---------------- *)
\* C16: no error outcome of a call ends the process: run never terminates
\* because a call it made, the domain-enable calls included, timed out or
\* failed on the connection.
C16_ErrorsNeverTerminateRun ==
    runner.pc # "terminated"

\* C17: whenever a send_command call is suspended on its future on a live
\* connection, the read loop is running.
C17_ReadLoopServesEveryCall ==
    \A t \in Callers :
        (call[t].pc = "wait" /\ SessionLive) => reader = "running"

(* ---------------- properties of the calls of commands ---------------- *)
\* a delivered command that makes a call is waiting to be taken while the call
\* of an earlier command is suspended on a live connection
SecondCommandWaiting ==
    /\ listener.pc = "executing"
    /\ call[Dispatcher].pc = "wait"
    /\ call[Dispatcher].id \in DOMAIN pending_commands
    /\ SessionLive
    /\ cmd_queue # <<>>
    /\ Head(cmd_queue).cmd.kind = "object"
    /\ Head(cmd_queue).cmd.action \in SupportedActions

\* C18: a command delivered while the call of an earlier command is pending
\* does not wait for the earlier command: the listener can take it and send
\* its call while the earlier call is still pending.
C18_CommandsRunConcurrently ==
    SecondCommandWaiting => ENABLED listen_next

\* the call of task t is inside send_command
InProgress(t) == call[t].pc \in {"send", "wait", "ready", "timeout"}

\* C19: every entry of pending_commands belongs to a call that is still inside
\* send_command: on every path out of send_command the entry of the call has
\* been removed, so the table is empty once no call is in progress.
C19_EntriesLeaveWithTheirCall ==
    /\ \A k \in DOMAIN pending_commands :
          \E t \in Callers : InProgress(t) /\ call[t].id = k
    /\ (\A t \in Callers : ~InProgress(t)) => DOMAIN pending_commands = {}

\* the sub-calls of typing a text: keyDown then keyUp of its first character,
\* then the sub-calls of the rest
RECURSIVE KeyCalls(_)
KeyCalls(text) ==
    IF text = <<>> THEN <<>>
    ELSE <<Req("Input.dispatchKeyEvent", "keyDown:" \o Head(text)),
           Req("Input.dispatchKeyEvent", "keyUp:" \o Head(text))>> \o KeyCalls(Tail(text))

\* the sub-calls of a composite operation, in the order they are to be sent
SubCalls(command) ==
    IF command.action = "click"
    THEN <<Req("Input.dispatchMouseEvent", "mousePressed"),
           Req("Input.dispatchMouseEvent", "mouseReleased")>>
    ELSE KeyCalls(command.text)

Composite(command) == command.kind = "object" /\ command.action \in {"click", "type"}

\* the calls made so far for the n-th command, in the futures fs
CallsOf(fs, n) == {f \in DOMAIN fs : fs[f].n = n}

\* C20: the k-th call made for a click or type command is the k-th sub-call of
\* the operation (mousePressed then mouseReleased; keyDown then keyUp for each
\* character in text order), it is made only when every earlier sub-call of
\* the command has resolved and left the table, a command that succeeds has
\* made all its sub-calls (2n for n characters), and a command never has more
\* than one entry in pending_commands.
C20_SubCallsInOrder ==
    /\ [][(/\ Len(futures') = Len(futures) + 1
           /\ futures'[Len(futures')].owner = Dispatcher
           /\ Composite(listener'.cmd))
          => LET n == futures'[Len(futures')].n
                 k == Cardinality(CallsOf(futures', n))
                 calls == SubCalls(listener'.cmd) IN
             /\ n = listener'.n
             /\ k <= Len(calls)
             /\ Req(call'[Dispatcher].method, call'[Dispatcher].arg) = calls[k]
             /\ \A f \in CallsOf(futures, n) :
                   /\ futures[f].state = "done"
                   /\ futures[f].id \notin DOMAIN pending_commands]_vars
    /\ [][(/\ Len(published') = Len(published) + 1
           /\ published'[Len(published')].channel # "browser:events"
           /\ published'[Len(published')].success
           /\ Composite(CurrentCommand))
          => Cardinality(CallsOf(futures, published'[Len(published')].n))
                = Len(SubCalls(CurrentCommand))]_vars
    /\ [](\A n \in 1 .. delivered :
            Cardinality({k \in DOMAIN pending_commands :
                            futures[pending_commands[k]].n = n}) <= 1)

\* a type command of two characters succeeded after four calls
C20_Witness ==
    \E i \in Results :
        /\ published[i].action = "type"
        /\ published[i].success
        /\ Cardinality(CallsOf(futures, published[i].n)) = 4

\* C21: when a sub-call of a click or type command has raised, the next step
\* of the command publishes its one Command Result, with success false and the
\* error of the failed call, and makes no call; no call is ever made for a
\* command whose result is published, so nothing compensates the sub-calls
\* that completed.
C21_FailedSubCallEndsCommand ==
    /\ [][(/\ listener.pc = "executing"
           /\ Composite(listener.cmd)
           /\ call[Dispatcher].pc = "raised"
           /\ (listener' # listener \/ call'[Dispatcher] # call[Dispatcher]))
          => (/\ Len(published') = Len(published) + 1
              /\ SubSeq(published', 1, Len(published)) = published
              /\ published'[Len(published')].n = listener.n
              /\ published'[Len(published')].channel
                    = "browser:result:" \o Format(listener.cmd.session_id)
              /\ ~published'[Len(published')].success
              /\ published'[Len(published')].has_error
              /\ published'[Len(published')].error = call[Dispatcher].out
              /\ call[Dispatcher].out # ""
              /\ futures' = futures
              /\ message_id' = message_id
              /\ pending_commands' = pending_commands
              /\ listener'.pc = "listening")]_vars
    /\ [][Len(futures') > Len(futures)
          => \A i \in Results : published[i].n # futures'[Len(futures')].n]_vars

\* the release call of a click timed out after its press call had resolved, and
\* the click was answered with the timeout error after these two calls
C21_Witness ==
    \E i \in Results :
        /\ published[i].action = "click"
        /\ ~published[i].success
        /\ published[i].error = "Command Input.dispatchMouseEvent timed out"
        /\ \E f, g \in DOMAIN futures :
              /\ CallsOf(futures, published[i].n) = {f, g}
              /\ f < g
              /\ futures[f].state = "done"
              /\ futures[g].state = "cancelled"

\* C22: when the publish of an event raises, the read loop is still running
\* with pending_commands and every future unchanged; the read loop stops only
\* when the connection is closed, and while it runs it takes every frame that
\* arrives, a Response or a Notification after a failed publish included.
C22_PublishFailureKeepsReading ==
    /\ [][(caught' = "ConnectionError" /\ inbound' # inbound)
          => (/\ reader = "running"
              /\ reader' = "running"
              /\ published' = published
              /\ pending_commands' = pending_commands
              /\ futures' = futures
              /\ call' = call)]_vars
    /\ [][(reader = "running" /\ reader' # "running")
          => (~conn_open /\ inbound = <<>>)]_vars
    /\ []((reader = "running" /\ inbound # <<>> /\ LoopFree) => ENABLED handle_messages_recv)
    /\ []((caught = "ConnectionError") => reader \in {"running", "stopped"})
    /\ []((caught = "ConnectionError" /\ reader = "stopped") => ~conn_open)

\* after a failed publish the read loop is running and the Response of a
\* pending call has arrived for it to take
C22_Witness ==
    /\ caught = "ConnectionError"
    /\ reader = "running"
    /\ inbound # <<>>
    /\ Head(inbound).kind = "response"
    /\ Head(inbound).id \in DOMAIN pending_commands
    /\ ENABLED handle_messages_recv

\* C23: a Command Result has success true only if every call made for its
\* command was resolved by a Response with a result payload; a command one of
\* whose calls was answered with an error payload is reported with success
\* false.
C23_SuccessMeansEveryCallSucceeded ==
    \A i \in Results :
        published[i].success =>
            \A f \in CallsOf(futures, published[i].n) :
                /\ futures[f].state = "done"
                /\ futures[f].result.payload = "result"

====
